---------------------------- MODULE Spec2Model ----------------------------
(***************************************************************************)
(* A model of vintageJS (src/src/index.js): the applyEffect pipeline.      *)
(*                                                                         *)
(*   Spec      the asynchronous behaviour of applyEffect: the promise, the *)
(*             viewfinder texture cache, image loads and the promise       *)
(*             reactions (microtasks) that connect them.                   *)
(*   PassSpec  the numeric part of one invocation: getLUT, then the pixel  *)
(*             loop over the image data and its write-back.                *)
(*   BlendSpec the viewfinder composite: the 'multiply' blend mode against *)
(*             the manual per-sample fallback.                             *)
(*                                                                         *)
(* JavaScript numbers are modelled as exact rationals [n, d] (d > 0), so   *)
(* binary floating-point rounding error is outside the model; NaN and      *)
(* undefined are modelled as values of their own.                          *)
(***************************************************************************)
EXTENDS Integers, Sequences, FiniteSets, TLC

VARIABLES
    \* --- Spec ---
    inv,          \* the applyEffect invocations made so far, in call order
    loads,        \* the Image elements created by loadImage, in creation order
    cache,        \* own properties of loadImageWithCache's `cache` object
    microtasks,   \* the promise-reaction job queue (FIFO)
    completed,    \* history: loads in the order their onload fired
    \* --- PassSpec / BlendSpec ---
    effect,       \* the merged Effect of the invocation
    LUT,          \* getLUT(effect), <<>> before it is built
    orig,         \* the image data read from the surface (ctx.getImageData)
    data,         \* the image data committed to the surface (ctx.putImageData)
    texture,      \* the viewfinder texture's samples, scaled to the surface
    supportsBlendModes,
    pc            \* position of the synchronous pipeline

vars == << inv, loads, cache, microtasks, completed,
           effect, LUT, orig, data, texture, supportsBlendModes, pc >>

asyncVars == << inv, loads, cache, microtasks, completed >>
passVars  == << effect, LUT, orig, data, texture, supportsBlendModes, pc >>

-----------------------------------------------------------------------------
(* Bounds of the model *)

\* applyEffect is called at most MaxCalls times in a behaviour of Spec.
MaxCalls == 2

-----------------------------------------------------------------------------
(***************************************************************************)
(* Spec: promises, loads and the viewfinder cache                          *)
(***************************************************************************)

\* `viewfinder: false | string`; the empty string stands for "not set"
\* (false and '' take the same branch of `if (!viewfinder)`).
NoViewfinder == ""

\* The texture identifiers callers pass.  "constructor" is a legal relative
\* URL like the others.
TexIds == {"a.png", "b.png", "constructor"}

\* Property names every object literal inherits from Object.prototype.
ObjectPrototypeKeys ==
    {"constructor", "toString", "toLocaleString", "valueOf", "hasOwnProperty",
     "isPrototypeOf", "propertyIsEnumerable", "__proto__"}

\* JavaScript values that flow through the cache and the promise chain.
Undefined    == [kind |-> "undefined", load |-> 0]
Builtin      == [kind |-> "builtin", load |-> 0]      \* a member of Object.prototype
ImageOf(l)   == [kind |-> "image", load |-> l]        \* the Image made by load l

Truthy(v) == v.kind # "undefined"

\* cache[src] on `const cache = {}`: an own property, else the prototype's.
CacheGet(c, src) ==
    IF src \in DOMAIN c THEN c[src]
    ELSE IF src \in ObjectPrototypeKeys THEN Builtin
    ELSE Undefined

\* Mutant of CachePut: an entry, once written, is never overwritten.
CachePutFirstWins(c, src, img) ==
    IF src \in DOMAIN c THEN c
    ELSE [k \in DOMAIN c \cup {src} |-> IF k = src THEN img ELSE c[k]]

\* cache[src] = img
CachePut(c, src, img) ==
    [k \in DOMAIN c \cup {src} |-> IF k = src THEN img ELSE c[k]]

\* The effect fields that decide the control flow of applyEffect.
CallEffects ==
    [vignette : {0, 1}, lighten : {0, 1}, viewfinder : {NoViewfinder} \cup TexIds]

\* The synchronous stages of applyEffect up to the viewfinder branch, as the
\* events they leave on the surface, in program order.
SyncStages(e) ==
    << "lut", "pixels" >>
        \o (IF e.vignette # 0 THEN << "vignette" >> ELSE << >>)
        \o (IF e.lighten # 0 THEN << "lighten" >> ELSE << >>)

\* Loads of `src` whose outcome is still open.
LoadingOf(src) ==
    {l \in 1..Len(loads) : loads[l].src = src /\ loads[l].state = "loading"}

NewInvocation(e) ==
    [ vignette   |-> e.vignette,
      lighten    |-> e.lighten,
      viewfinder |-> e.viewfinder,
      promise    |-> "pending",
      log        |-> SyncStages(e),
      load       |-> 0,
      drawn      |-> Undefined,
      \* history: every earlier invocation had resolved when this one started
      sequential |-> \A j \in 1..Len(inv) : inv[j].promise = "resolved",
      \* history: loads of the same identifier in flight when this one started
      \* and found the identifier uncached
      racing     |-> IF Truthy(CacheGet(cache, e.viewfinder)) THEN {}
                     ELSE LoadingOf(e.viewfinder) ]

AsyncInit ==
    /\ inv = << >>
    /\ loads = << >>
    /\ cache = << >>
    /\ microtasks = << >>
    /\ completed = << >>

PassIdle ==
    /\ effect = << >>
    /\ LUT = << >>
    /\ orig = << >>
    /\ data = << >>
    /\ texture = << >>
    /\ supportsBlendModes = FALSE
    /\ pc = "idle"

Init == AsyncInit /\ PassIdle

\* applyEffect(srcEl, e) with viewfinder not set: resolve(getResult(canvas)).
CallPlain(e) ==
    /\ Len(inv) < MaxCalls
    /\ e.viewfinder = NoViewfinder
    /\ inv' = Append(inv, [NewInvocation(e) EXCEPT
                              !.promise = "resolved",
                              !.log = Append(@, "resolve")])
    /\ UNCHANGED << loads, cache, microtasks, completed >>
    /\ UNCHANGED passVars

\* applyEffect with a viewfinder whose cache[src] is truthy:
\* Promise.resolve(cache[src]).then(img => ...) queues the composite reaction.
CallCached(e) ==
    /\ Len(inv) < MaxCalls
    /\ e.viewfinder # NoViewfinder
    /\ Truthy(CacheGet(cache, e.viewfinder))
    /\ inv' = Append(inv, NewInvocation(e))
    /\ microtasks' = Append(microtasks,
            [kind |-> "composite", inv |-> Len(inv) + 1,
             img |-> CacheGet(cache, e.viewfinder)])
    /\ UNCHANGED << loads, cache, completed >>
    /\ UNCHANGED passVars

\* applyEffect with a viewfinder whose cache[src] is falsy: loadImage(src)
\* creates an Image and starts the load; both .then reactions wait for it.
CallLoad(e) ==
    /\ Len(inv) < MaxCalls
    /\ e.viewfinder # NoViewfinder
    /\ ~Truthy(CacheGet(cache, e.viewfinder))
    /\ inv' = Append(inv, [NewInvocation(e) EXCEPT !.load = Len(loads) + 1])
    /\ loads' = Append(loads, [src |-> e.viewfinder, owner |-> Len(inv) + 1,
                               state |-> "loading"])
    /\ UNCHANGED << cache, microtasks, completed >>
    /\ UNCHANGED passVars

\* img.onload = () => resolve(img): a task, so it runs with no reaction pending.
OnLoad(l) ==
    /\ microtasks = << >>
    /\ loads[l].state = "loading"
    /\ loads' = [loads EXCEPT ![l].state = "loaded"]
    /\ microtasks' = Append(microtasks,
            [kind |-> "store", inv |-> loads[l].owner, img |-> ImageOf(l)])
    /\ completed' = Append(completed, l)
    /\ UNCHANGED << inv, cache >>
    /\ UNCHANGED passVars

\* Mutant of OnError: the failed Image element is put into the cache.
OnErrorPoisonsCache(l) ==
    /\ microtasks = << >>
    /\ loads[l].state = "loading"
    /\ loads' = [loads EXCEPT ![l].state = "failed"]
    /\ microtasks' = Append(microtasks,
            [kind |-> "rejectStore", inv |-> loads[l].owner, img |-> Undefined])
    /\ cache' = CachePut(cache, loads[l].src, ImageOf(l))
    /\ UNCHANGED << inv, completed >>
    /\ UNCHANGED passVars

\* img.onerror = err => reject(err)
OnError(l) ==
    /\ microtasks = << >>
    /\ loads[l].state = "loading"
    /\ loads' = [loads EXCEPT ![l].state = "failed"]
    /\ microtasks' = Append(microtasks,
            [kind |-> "rejectStore", inv |-> loads[l].owner, img |-> Undefined])
    /\ UNCHANGED << inv, cache, completed >>
    /\ UNCHANGED passVars

\* .then(img => { cache[src] = img; return img; })
StoreInCache ==
    /\ microtasks # << >>
    /\ Head(microtasks).kind = "store"
    /\ LET m == Head(microtasks) IN
        /\ cache' = CachePut(cache, inv[m.inv].viewfinder, m.img)
        /\ microtasks' = Append(Tail(microtasks),
                [kind |-> "composite", inv |-> m.inv, img |-> m.img])
    /\ UNCHANGED << inv, loads, completed >>
    /\ UNCHANGED passVars

\* Mutant of CompositeDrawn: the promise is resolved before the texture is drawn.
ResolveBeforeDraw(i, img) ==
    [inv EXCEPT ![i].log = @ \o << "resolve", "viewfinder" >>,
                ![i].drawn = img,
                ![i].promise = "resolved"]

\* Lines 279-289 for an image: composite the texture, then
\* resolve(getResult(canvas)).
CompositeDrawn(i, img) ==
    [inv EXCEPT ![i].log = @ \o << "viewfinder", "resolve" >>,
                ![i].drawn = img,
                ![i].promise = "resolved"]

\* The .then(img => {...}) of applyEffect, lines 278-290.  drawImage throws
\* a TypeError for a value that is no image, which rejects only the promise
\* .then returned: nothing is drawn and the invocation's promise is untouched.
Composite ==
    /\ microtasks # << >>
    /\ Head(microtasks).kind = "composite"
    /\ LET m == Head(microtasks) IN
        inv' = IF m.img.kind = "image" THEN CompositeDrawn(m.inv, m.img) ELSE inv
    /\ microtasks' = Tail(microtasks)
    /\ UNCHANGED << loads, cache, completed >>
    /\ UNCHANGED passVars

\* A rejected loadImage promise: the first .then has no onRejected, so the
\* rejection passes to the promise it returned ...
RejectStore ==
    /\ microtasks # << >>
    /\ Head(microtasks).kind = "rejectStore"
    /\ microtasks' = Append(Tail(microtasks),
            [Head(microtasks) EXCEPT !.kind = "rejectComposite"])
    /\ UNCHANGED << inv, loads, cache, completed >>
    /\ UNCHANGED passVars

\* ... and the second .then has none either: the rejection ends unhandled.
\* The executor's `return` value is ignored and reject is never called.
RejectComposite ==
    /\ microtasks # << >>
    /\ Head(microtasks).kind = "rejectComposite"
    /\ microtasks' = Tail(microtasks)
    /\ UNCHANGED << inv, loads, cache, completed >>
    /\ UNCHANGED passVars

Next ==
    \/ \E e \in CallEffects : CallPlain(e)
    \/ \E e \in CallEffects : CallCached(e)
    \/ \E e \in CallEffects : CallLoad(e)
    \/ \E l \in 1..Len(loads) : OnLoad(l)
    \/ \E l \in 1..Len(loads) : OnError(l)
    \/ StoreInCache
    \/ Composite
    \/ RejectStore
    \/ RejectComposite

Spec == Init /\ [][Next]_vars

-----------------------------------------------------------------------------
(***************************************************************************)
(* JavaScript numbers as exact rationals                                   *)
(***************************************************************************)

RECURSIVE GCD(_, _)
GCD(a, b) == IF b = 0 THEN a ELSE GCD(b, a % b)

Abs(x) == IF x < 0 THEN -x ELSE x

\* The number n/d (d # 0) in lowest terms with a positive denominator.
Rat(n, d) ==
    LET g == GCD(Abs(n), Abs(d))
        s == IF d < 0 THEN -1 ELSE 1
    IN  [k |-> "num", n |-> s * (n \div g), d |-> s * (d \div g)]

Num(n)   == [k |-> "num", n |-> n, d |-> 1]
NaN      == [k |-> "nan", n |-> 0, d |-> 1]
undefined == [k |-> "undefined", n |-> 0, d |-> 1]

IsNum(a) == a.k = "num"

\* Arithmetic on anything that is not a number (undefined, NaN) gives NaN.
Add(a, b) ==
    IF ~(IsNum(a) /\ IsNum(b)) THEN NaN
    ELSE LET l == (a.d \div GCD(a.d, b.d)) * b.d
         IN  Rat(a.n * (l \div a.d) + b.n * (l \div b.d), l)

Neg(a) == IF IsNum(a) THEN [a EXCEPT !.n = -a.n] ELSE NaN

Sub(a, b) == Add(a, Neg(b))

Mul(a, b) ==
    IF ~(IsNum(a) /\ IsNum(b)) THEN NaN
    ELSE LET g1 == GCD(Abs(a.n), b.d)
             g2 == GCD(Abs(b.n), a.d)
         IN  Rat((a.n \div g1) * (b.n \div g2), (a.d \div g2) * (b.d \div g1))

\* a / b for b # 0
Div(a, b) ==
    IF ~(IsNum(a) /\ IsNum(b)) THEN NaN
    ELSE Mul(a, Rat(b.d, b.n))

\* a < b; any comparison with NaN or undefined is false.
Lt(a, b) == IsNum(a) /\ IsNum(b) /\ a.n * b.d < b.n * a.d

IsZero(a) == IsNum(a) /\ a.n = 0

-----------------------------------------------------------------------------
(***************************************************************************)
(* Arrays                                                                  *)
(***************************************************************************)

\* a[key] on a plain Array (a LUT channel, a curve table): the element at an
\* integer index in range, undefined for any other key.
ArrayGet(a, key) ==
    IF IsNum(key) /\ key.d = 1 /\ key.n >= 0 /\ key.n < Len(a)
    THEN a[key.n + 1]
    ELSE undefined

\* Mutant of ToUint8Clamp: the conversion of a plain Uint8Array (truncate,
\* then wrap modulo 256).
ToUint8Truncate(v) ==
    IF ~IsNum(v) THEN 0
    ELSE ((v.n - (v.n % v.d)) \div v.d) % 256

\* Conversion of a value stored into a Uint8ClampedArray (the type of
\* data.data and of its slice `id`): NaN and undefined become 0, numbers are
\* clamped to 0..255 and rounded to the nearest integer, ties to even.
ToUint8Clamp(v) ==
    IF ~IsNum(v) THEN 0
    ELSE IF v.n <= 0 THEN 0
    ELSE IF v.n \div v.d >= 255 THEN 255
    ELSE LET f == v.n \div v.d
             twice == 2 * (v.n - f * v.d)
         IN  IF twice < v.d THEN f
             ELSE IF twice > v.d THEN f + 1
             ELSE IF f % 2 = 0 THEN f ELSE f + 1

\* id[idx] on the Uint8ClampedArray `id` (idx counts from 0): undefined
\* outside the array.
TypedGet(id, idx) ==
    IF idx >= 0 /\ idx < Len(id) THEN Num(id[idx + 1]) ELSE undefined

\* Mutant of TypedSet: id[idx] = v as on a plain Array, where a write past
\* the end grows the array.
PlainArraySet(id, idx, v) ==
    IF idx >= 0 /\ idx < Len(id) THEN [id EXCEPT ![idx + 1] = ToUint8Clamp(v)]
    ELSE id \o [k \in 1..(idx - Len(id)) |-> 0] \o << ToUint8Clamp(v) >>

\* id[idx] = v on the Uint8ClampedArray `id`: a write outside the array is
\* ignored, the length is fixed.
TypedSet(id, idx, v) ==
    IF idx >= 0 /\ idx < Len(id) THEN [id EXCEPT ![idx + 1] = ToUint8Clamp(v)]
    ELSE id

-----------------------------------------------------------------------------
(***************************************************************************)
(* getLUT                                                                  *)
(***************************************************************************)

NoCurves == [set |-> FALSE, r |-> << >>, g |-> << >>, b |-> << >>]
NoScreen == [set |-> FALSE, r |-> Num(0), g |-> Num(0), b |-> Num(0), a |-> Num(0)]

defaultEffect ==
    [ curves     |-> NoCurves,
      screen     |-> NoScreen,
      saturation |-> Num(1),
      vignette   |-> Num(0),
      lighten    |-> Num(0),
      viewfinder |-> NoViewfinder,
      sepia      |-> FALSE,
      brightness |-> Num(0),
      contrast   |-> Num(0) ]

\* { ...defaultEffect, ...partialEffect }
MergeEffect(partialEffect) ==
    [f \in DOMAIN defaultEffect |->
        IF f \in DOMAIN partialEffect THEN partialEffect[f] ELSE defaultEffect[f]]

\* A unary function number -> number is modelled by the sequence of the
\* stages it applies, first stage first.
idFn == << >>
curvesFn(curves) == << [fn |-> "curves", table |-> curves] >>
contrastFn(f) == << [fn |-> "contrast", f |-> f] >>
brightnessFn(f) == << [fn |-> "brightness", f |-> f] >>
screenFn(sa, sc) == << [fn |-> "screen", sa |-> sa, sc |-> sc] >>

\* Mutant of compose: x => g(f(x)).
composeReversed(f, g) == f \o g

\* compose(f, g) = x => f(g(x))
compose(f, g) == g \o f

\* curves[c]
ApplyCurves(table, c) == ArrayGet(table, c)

\* 259 * (f * 256 + 255) / (255 * (259 - f * 256)) * (c - 128) + 128
ApplyContrast(f, c) ==
    Add(Mul(Div(Mul(Num(259), Add(Mul(f, Num(256)), Num(255))),
                Mul(Num(255), Sub(Num(259), Mul(f, Num(256))))),
            Sub(c, Num(128))),
        Num(128))

\* c + f * 256
ApplyBrightness(f, c) == Add(c, Mul(f, Num(256)))

\* 255 - (255 - c) * (255 - sc * sa) / 255
ApplyScreen(sa, sc, c) ==
    Sub(Num(255),
        Div(Mul(Sub(Num(255), c), Sub(Num(255), Mul(sc, sa))), Num(255)))

ApplyStage(st, c) ==
    CASE st.fn = "curves" -> ApplyCurves(st.table, c)
      [] st.fn = "contrast" -> ApplyContrast(st.f, c)
      [] st.fn = "brightness" -> ApplyBrightness(st.f, c)
      [] st.fn = "screen" -> ApplyScreen(st.sa, st.sc, c)

\* Calling a unary function on x.
RECURSIVE Call(_, _)
Call(fn, x) ==
    IF fn = << >> THEN x ELSE Call(Tail(fn), ApplyStage(Head(fn), x))

\* getLUT(effect): the three channel functions, then their tables over
\* id_arr = [0, 1, ..., 255].
ChannelFn(e, ch) ==
    LET m0 == idFn
        m1 == IF e.curves.set THEN compose(curvesFn(e.curves[ch]), m0) ELSE m0
        m2 == IF ~IsZero(e.contrast) THEN compose(contrastFn(e.contrast), m1) ELSE m1
        m3 == IF ~IsZero(e.brightness)
              THEN compose(brightnessFn(e.brightness), m2) ELSE m2
        m4 == IF e.screen.set
              THEN compose(screenFn(e.screen.a, e.screen[ch]), m3) ELSE m3
    IN  m4

getLUT(e) ==
    LET rMod == ChannelFn(e, "r")
        gMod == ChannelFn(e, "g")
        bMod == ChannelFn(e, "b")
    IN  << [idx \in 1..256 |-> Call(rMod, Num(idx - 1))],
           [idx \in 1..256 |-> Call(gMod, Num(idx - 1))],
           [idx \in 1..256 |-> Call(bMod, Num(idx - 1))] >>

-----------------------------------------------------------------------------
(***************************************************************************)
(* The pixel loop of applyEffect                                           *)
(***************************************************************************)

\* The sepia colour matrix of lines 230-232.
Sepia(r, g, b) ==
    << Add(Add(Mul(r, Rat(393, 1000)), Mul(g, Rat(769, 1000))), Mul(b, Rat(189, 1000))),
       Add(Add(Mul(r, Rat(349, 1000)), Mul(g, Rat(686, 1000))), Mul(b, Rat(168, 1000))),
       Add(Add(Mul(r, Rat(272, 1000)), Mul(g, Rat(534, 1000))), Mul(b, Rat(131, 1000))) >>

\* Mutant of Saturate: blends by `saturation` instead of 1 - saturation.
SaturateBySaturation(saturation, rgb) ==
    IF Lt(saturation, Num(1))
    THEN LET avg == Div(Add(Add(rgb[1], rgb[2]), rgb[3]), Num(3))
         IN  << Add(rgb[1], Mul(Sub(avg, rgb[1]), saturation)),
                Add(rgb[2], Mul(Sub(avg, rgb[2]), saturation)),
                Add(rgb[3], Mul(Sub(avg, rgb[3]), saturation)) >>
    ELSE rgb

\* if (saturation < 1) { avg = (r + g + b) / 3; c += (avg - c) * (1 - saturation) }
Saturate(saturation, rgb) ==
    IF Lt(saturation, Num(1))
    THEN LET avg == Div(Add(Add(rgb[1], rgb[2]), rgb[3]), Num(3))
             k   == Sub(Num(1), saturation)
         IN  << Add(rgb[1], Mul(Sub(avg, rgb[1]), k)),
                Add(rgb[2], Mul(Sub(avg, rgb[2]), k)),
                Add(rgb[3], Mul(Sub(avg, rgb[3]), k)) >>
    ELSE rgb

\* The values r, g, b hold at line 245 for the samples (ir, ig, ib) read
\* from the buffer.
Shade(e, lut, ir, ig, ib) ==
    LET r == ArrayGet(lut[1], ir)
        g == ArrayGet(lut[2], ig)
        b == ArrayGet(lut[3], ib)
        toned == IF e.sepia THEN Sepia(r, g, b) ELSE << r, g, b >>
    IN  Saturate(e.saturation, toned)

\* One iteration of the loop body, lines 221-247.
PixelStep(id, i, e, lut) ==
    LET ri == i * 4
        gi == ri + 1
        bi == ri + 2
        rgb == Shade(e, lut, TypedGet(id, ri), TypedGet(id, gi), TypedGet(id, bi))
    IN  TypedSet(TypedSet(TypedSet(id, ri, rgb[1]), gi, rgb[2]), bi, rgb[3])

\* for (let i = id.length / 4; i >= 0; --i) { ... }, from iteration i on.
RECURSIVE PixelLoop(_, _, _, _)
PixelLoop(id, i, e, lut) ==
    IF i >= 0 THEN PixelLoop(PixelStep(id, i, e, lut), i - 1, e, lut) ELSE id

\* Lines 215-251: id = data.data.slice(0); the loop; data.data.set(id).
PixelPassResult(img, e, lut) == PixelLoop(img, Len(img) \div 4, e, lut)

-----------------------------------------------------------------------------
(***************************************************************************)
(* PassSpec: getLUT and the pixel pass of one invocation                   *)
(***************************************************************************)

\* Images have at most MaxPixels pixels.
MaxPixels == 4

\* Curve tables: 256 numbers per channel.
InvertTable   == [idx \in 1..256 |-> Num(256 - idx)]
IdentityTable == [idx \in 1..256 |-> Num(idx - 1)]
HalfTable     == [idx \in 1..256 |-> Rat(idx - 1, 2)]

\* The overrides callers pass, by field.
CurveChoices ==
    {[set |-> TRUE, r |-> InvertTable, g |-> IdentityTable, b |-> HalfTable]}
ScreenChoices ==
    {[set |-> TRUE, r |-> Num(255), g |-> Num(102), b |-> Num(0), a |-> Rat(1, 2)]}
ContrastChoices   == {Rat(1, 128)}
BrightnessChoices == {Rat(1, 10)}
SaturationChoices == {Num(0), Rat(1, 2), Num(2)}

\* A partial effect sets a field or leaves it out.
Optional(field, values) ==
    {<< >>} \cup {[f \in {field} |-> v] : v \in values}

Merge2(p, q) ==
    [f \in DOMAIN p \cup DOMAIN q |-> IF f \in DOMAIN q THEN q[f] ELSE p[f]]

PartialEffects ==
    { Merge2(Merge2(Merge2(Merge2(Merge2(c, k), br), sc), se), sa) :
        c  \in Optional("curves", CurveChoices),
        k  \in Optional("contrast", ContrastChoices),
        br \in Optional("brightness", BrightnessChoices),
        sc \in Optional("screen", ScreenChoices),
        se \in Optional("sepia", {TRUE}),
        sa \in Optional("saturation", SaturationChoices) }

\* RGBA pixels the images are made of.
Pixels ==
    << << 128, 128, 128, 255 >>,
       << 0, 0, 0, 255 >>,
       << 255, 255, 255, 255 >>,
       << 1, 0, 0, 255 >>,
       << 200, 100, 50, 128 >>,
       << 10, 250, 30, 0 >> >>

\* The image of n pixels that starts at Pixels[start] and moves on by `step`.
Image(n, start, step) ==
    [j \in 1..(4 * n) |->
        Pixels[((start - 1 + ((j - 1) \div 4) * step) % Len(Pixels)) + 1]
              [((j - 1) % 4) + 1]]

Images ==
    {Image(n, start, step) :
        n \in 0..MaxPixels, start \in 1..Len(Pixels), step \in {0, 1}}

\* The effects of the model.  The one combination whose exact arithmetic
\* leaves TLC's 32-bit integers (contrast, screen, sepia and desaturation all
\* at once) is left out.
Effects ==
    {e \in {MergeEffect(p) : p \in PartialEffects} :
        ~(/\ ~IsZero(e.contrast) /\ e.screen.set /\ e.sepia
          /\ Lt(e.saturation, Num(1)))}

PassInit ==
    /\ AsyncInit
    /\ effect \in Effects
    /\ LUT = << >>
    /\ orig = << >>
    /\ data = << >>
    /\ texture = << >>
    /\ supportsBlendModes = FALSE
    /\ pc = "start"

\* const LUT = getLUT(effect)
BuildLUT ==
    /\ pc = "start"
    /\ LUT' = getLUT(effect)
    /\ pc' = "lut"
    /\ UNCHANGED << effect, orig, data, texture, supportsBlendModes >>
    /\ UNCHANGED asyncVars

\* Lines 215-251 on the image data `img` of the surface.
PixelPass(img) ==
    /\ pc = "lut"
    /\ orig' = img
    /\ data' = PixelPassResult(img, effect, LUT)
    /\ pc' = "pixels"
    /\ UNCHANGED << effect, LUT, texture, supportsBlendModes >>
    /\ UNCHANGED asyncVars

PassNext ==
    \/ BuildLUT
    \/ \E img \in Images : PixelPass(img)

PassSpec == PassInit /\ [][PassNext]_vars

-----------------------------------------------------------------------------
(***************************************************************************)
(* Properties of Spec                                                      *)
(***************************************************************************)

Range(s) == {s[k] : k \in 1..Len(s)}

NumLoads(s) == Cardinality({l \in 1..Len(loads) : loads[l].src = s})

Requests(s) == {i \in 1..Len(inv) : inv[i].viewfinder = s}

\* No promise reaction is pending: the job queue has drained.
Quiescent == microtasks = << >>

\* C1: when the texture load of an invocation has failed (and every promise
\* reaction it caused has run), the promise applyEffect returned is rejected.
C1_LoadFailureRejects ==
    \A i \in 1..Len(inv) :
        (/\ inv[i].load # 0
         /\ loads[inv[i].load].state = "failed"
         /\ Quiescent)
            => inv[i].promise = "rejected"

Rank(ev) ==
    CASE ev = "lut" -> 1
      [] ev = "pixels" -> 2
      [] ev = "vignette" -> 3
      [] ev = "lighten" -> 4
      [] ev = "viewfinder" -> 5
      [] ev = "resolve" -> 6

\* C2: in every invocation the events occur in the order LUT, pixel pass,
\* vignette (if enabled), lighten (if enabled), viewfinder composite (if
\* set), resolve; each at most once; the promise is resolved exactly when the
\* resolve event happened, and never before the viewfinder composite.
C2_StageOrder ==
    \A i \in 1..Len(inv) :
        LET log == inv[i].log IN
        /\ \A a, b \in 1..Len(log) : a < b => Rank(log[a]) < Rank(log[b])
        /\ Len(log) >= 2 /\ log[1] = "lut" /\ log[2] = "pixels"
        /\ ("vignette" \in Range(log)) <=> (inv[i].vignette # 0)
        /\ ("lighten" \in Range(log)) <=> (inv[i].lighten # 0)
        /\ ("viewfinder" \in Range(log)) => inv[i].viewfinder # NoViewfinder
        /\ (inv[i].promise = "resolved") <=> ("resolve" \in Range(log))
        /\ ("resolve" \in Range(log) /\ inv[i].viewfinder # NoViewfinder)
              => "viewfinder" \in Range(log)

C2_Witness ==
    \E i \in 1..Len(inv) :
        /\ inv[i].vignette # 0 /\ inv[i].lighten # 0
        /\ inv[i].viewfinder # NoViewfinder
        /\ inv[i].promise = "resolved"
        /\ inv[i].log = << "lut", "pixels", "vignette", "lighten",
                           "viewfinder", "resolve" >>

\* C3: when every request starts only after the previous ones have completed,
\* the texture loader is called exactly once for every identifier requested.
C3_OneLoadPerIdentifier ==
    (\A i \in 1..Len(inv) : inv[i].sequential)
        => \A s \in TexIds : Requests(s) # {} => NumLoads(s) = 1

\* For identifiers Object.prototype does not define, sequential requests do
\* load exactly once.
OneLoadForOrdinaryIdentifiers ==
    (\A i \in 1..Len(inv) : inv[i].sequential)
        => \A s \in TexIds \ ObjectPrototypeKeys :
              Requests(s) # {} => NumLoads(s) = 1

\* The last load of identifier s whose onload fired (0: none yet).
LastCompleted(s) ==
    LET done == {k \in 1..Len(completed) : loads[completed[k]].src = s}
    IN  IF done = {} THEN 0
        ELSE completed[CHOOSE k \in done : \A k2 \in done : k2 <= k]

\* C9: an invocation that starts while a load of the same identifier is in
\* flight issues a load of its own; when both loads have succeeded, both
\* invocations have composited the image of their own load and resolved, and
\* the cache holds, for the identifier, the image of the load that completed
\* last.
C9_RaceIsBenign ==
    \A j \in 1..Len(inv) : \A l \in inv[j].racing :
        LET i == loads[l].owner
            m == inv[j].load
            s == inv[j].viewfinder
        IN  /\ m # 0 /\ m # l
            /\ loads[m].src = s /\ loads[l].src = s /\ loads[m].owner = j
            /\ (Cardinality(Requests(s)) = 2) => NumLoads(s) = 2
            /\ (/\ loads[l].state = "loaded"
                /\ loads[m].state = "loaded"
                /\ Quiescent)
                  => /\ inv[i].promise = "resolved"
                     /\ inv[j].promise = "resolved"
                     /\ inv[i].drawn = ImageOf(l)
                     /\ inv[j].drawn = ImageOf(m)
                     /\ s \in DOMAIN cache
                     /\ cache[s] = ImageOf(LastCompleted(s))

\* The later of two racing loads finished first, so the earlier one wrote last.
C9_Witness ==
    \E j \in 1..Len(inv) : \E l \in inv[j].racing :
        /\ loads[l].state = "loaded"
        /\ loads[inv[j].load].state = "loaded"
        /\ Quiescent
        /\ LastCompleted(inv[j].viewfinder) = l
        /\ cache[inv[j].viewfinder] = ImageOf(l)
        /\ inv[j].promise = "resolved"
        /\ inv[loads[l].owner].promise = "resolved"

\* The step is the failure of a load, or a reaction passing its rejection on.
FailureStep ==
    \/ \E l \in 1..Len(loads) :
            loads[l].state = "loading" /\ loads'[l].state = "failed"
    \/ /\ microtasks # << >>
       /\ Head(microtasks).kind \in {"rejectStore", "rejectComposite"}
       /\ microtasks' # microtasks
       /\ Len(microtasks') <= Len(microtasks)     \* the head reaction ran

\* The step is a request for an identifier of which some load failed or is
\* still in flight, and none succeeded.
RetryStep ==
    /\ Len(inv') = Len(inv) + 1
    /\ LET s == inv'[Len(inv')].viewfinder IN
        /\ \E l \in 1..Len(loads) : loads[l].src = s
        /\ \A l \in 1..Len(loads) : loads[l].src = s => loads[l].state # "loaded"

\* C10: a failed (or never-completing) load changes neither the cache nor any
\* invocation; a later request for the same identifier issues a fresh load;
\* invocations without viewfinder are resolved, and so is every invocation
\* whose own load succeeded or whose texture was in the cache, whatever
\* happened to the other loads.
C10_FailedLoadIsLocal ==
    /\ [][FailureStep => (cache' = cache /\ inv' = inv)]_vars
    /\ [][RetryStep =>
            /\ Len(loads') = Len(loads) + 1
            /\ loads'[Len(loads')].src = inv'[Len(inv')].viewfinder
            /\ loads'[Len(loads')].state = "loading"
            /\ inv'[Len(inv')].load = Len(loads')]_vars
    /\ [](\A l \in 1..Len(loads) :
            loads[l].state # "loaded" =>
                \/ loads[l].src \notin DOMAIN cache
                \/ \E k \in 1..Len(loads) :
                      /\ loads[k].src = loads[l].src /\ loads[k].state = "loaded"
                      /\ cache[loads[l].src] = ImageOf(k))
    /\ [](\A i \in 1..Len(inv) :
            /\ inv[i].viewfinder = NoViewfinder => inv[i].promise = "resolved"
            /\ (inv[i].load # 0 /\ loads[inv[i].load].state = "loaded" /\ Quiescent)
                  => inv[i].promise = "resolved"
            /\ (inv[i].load = 0 /\ inv[i].viewfinder \in DOMAIN cache /\ Quiescent)
                  => inv[i].promise = "resolved")

\* A load of s failed, a later invocation asked for s again with a load of its
\* own, and an invocation for another identifier has resolved meanwhile.
C10_Witness ==
    \E l \in 1..Len(loads) : \E j \in 1..Len(inv) :
        /\ loads[l].state = "failed"
        /\ j > loads[l].owner
        /\ inv[j].viewfinder = loads[l].src
        /\ inv[j].load > l
        /\ loads[inv[j].load].state = "loaded"
        /\ inv[j].promise = "resolved"
        /\ inv[loads[l].owner].promise = "pending"
        /\ Quiescent

-----------------------------------------------------------------------------
(***************************************************************************)
(* Properties of PassSpec                                                  *)
(***************************************************************************)

Channel(ch) == CASE ch = 1 -> "r" [] ch = 2 -> "g" [] ch = 3 -> "b"

\* The four LUT stages, each the identity when the effect disables it.
CurveStage(e, ch, c) ==
    IF e.curves.set THEN ApplyCurves(e.curves[Channel(ch)], c) ELSE c
ContrastStage(e, c) ==
    IF IsZero(e.contrast) THEN c ELSE ApplyContrast(e.contrast, c)
BrightnessStage(e, c) ==
    IF IsZero(e.brightness) THEN c ELSE ApplyBrightness(e.brightness, c)
ScreenStage(e, ch, c) ==
    IF e.screen.set THEN ApplyScreen(e.screen.a, e.screen[Channel(ch)], c) ELSE c

LutDefaults(e) ==
    /\ ~e.curves.set /\ ~e.screen.set
    /\ IsZero(e.contrast) /\ IsZero(e.brightness)

\* C5: every LUT entry is screen(brightness(contrast(curve(i)))), a disabled
\* stage being the identity; with all four stages at their defaults the LUT
\* is the identity table.
C5_LUTComposition ==
    pc = "lut" =>
        /\ Len(LUT) = 3
        /\ \A ch \in 1..3 :
            /\ Len(LUT[ch]) = 256
            /\ \A i \in 0..255 :
                /\ LUT[ch][i + 1] =
                      ScreenStage(effect, ch,
                        BrightnessStage(effect,
                          ContrastStage(effect,
                            CurveStage(effect, ch, Num(i)))))
                /\ LutDefaults(effect) => LUT[ch][i + 1] = Num(i)

\* All four stages are enabled and the table is built: red 0 goes through
\* the inverting curve to 255, then contrast, brightness and screen.
C5_Witness ==
    /\ pc = "lut"
    /\ effect.curves.set /\ effect.screen.set
    /\ ~IsZero(effect.contrast) /\ ~IsZero(effect.brightness)
    /\ LUT[1][1] =
          ApplyScreen(effect.screen.a, effect.screen.r,
            ApplyBrightness(effect.brightness,
              ApplyContrast(effect.contrast, Num(255))))
    /\ LUT[1][1] # Num(0)

\* The pixels of a buffer are numbered from 0; Sample(buf, p, c) is channel c
\* (1..4 for R, G, B, A) of pixel p.
NumPixels(buf) == Len(buf) \div 4
Sample(buf, p, c) == buf[4 * p + c]

Gray2x2 == Image(4, 1, 0)
BrightEffect == MergeEffect([f \in {"brightness"} |-> Rat(1, 10)])

\* C4 (as claimed): the 2x2 mid-gray image under brightness 0.1 leaves the
\* pixel pass with R, G, B = 153.6 in every pixel, unrounded, and alpha 255.
C4_UnroundedBrightness ==
    (pc = "pixels" /\ effect = BrightEffect /\ orig = Gray2x2) =>
        \A p \in 0..3 :
            /\ \A c \in 1..3 : Num(Sample(data, p, c)) = Rat(768, 5)
            /\ Sample(data, p, 4) = 255

\* C4 (amended): the LUT maps 128 to 153.6, and the buffer, whose samples are
\* 8-bit clamped integers, holds 154 in R, G and B of every pixel; alpha 255.
C4_RoundedBrightness ==
    (pc = "pixels" /\ effect = BrightEffect /\ orig = Gray2x2) =>
        /\ \A ch \in 1..3 : LUT[ch][129] = Rat(768, 5)
        /\ Len(data) = 16
        /\ \A p \in 0..3 :
            /\ \A c \in 1..3 : Sample(data, p, c) = 154
            /\ Sample(data, p, 4) = 255

C4_Witness ==
    /\ pc = "pixels" /\ effect = BrightEffect /\ orig = Gray2x2
    /\ data = << 154, 154, 154, 255, 154, 154, 154, 255,
                 154, 154, 154, 255, 154, 154, 154, 255 >>

\* (r, g, b) of pixel p after the LUT and, if enabled, the sepia step.
Toned(p) ==
    LET r == ArrayGet(LUT[1], Num(Sample(orig, p, 1)))
        g == ArrayGet(LUT[2], Num(Sample(orig, p, 2)))
        b == ArrayGet(LUT[3], Num(Sample(orig, p, 3)))
    IN  IF effect.sepia THEN Sepia(r, g, b) ELSE << r, g, b >>

\* What the claim says channel c of (r, g, b) becomes.
Desaturated(rgb, c) ==
    LET avg == Div(Add(Add(rgb[1], rgb[2]), rgb[3]), Num(3)) IN
    IF ~Lt(effect.saturation, Num(1)) THEN rgb[c]
    ELSE IF IsZero(effect.saturation) THEN avg
    ELSE Add(rgb[c], Mul(Sub(avg, rgb[c]), Sub(Num(1), effect.saturation)))

\* C6 (as claimed): the pixel pass outputs exactly (r, g, b) for saturation
\* >= 1, the average for saturation 0, and c + (avg - c) * (1 - saturation)
\* in between.
C6_ExactSaturation ==
    pc = "pixels" =>
        \A p \in 0..(NumPixels(orig) - 1) : \A c \in 1..3 :
            Num(Sample(data, p, c)) = Desaturated(Toned(p), c)

\* C6 (amended): the sample the pixel pass writes is that value converted
\* by the 8-bit clamped buffer (nearest integer, ties to even, within 0..255).
C6_RoundedSaturation ==
    pc = "pixels" =>
        \A p \in 0..(NumPixels(orig) - 1) : \A c \in 1..3 :
            Sample(data, p, c) = ToUint8Clamp(Desaturated(Toned(p), c))

\* Full desaturation of a coloured pixel: the three channels meet at the
\* rounded average.
C6_Witness ==
    /\ pc = "pixels"
    /\ IsZero(effect.saturation)
    /\ NumPixels(orig) >= 1
    /\ SubSeq(orig, 1, 4) = << 200, 100, 50, 128 >>
    /\ Toned(0)[1] # Toned(0)[2]
    /\ Sample(data, 0, 1) = Sample(data, 0, 2)
    /\ Sample(data, 0, 2) = Sample(data, 0, 3)

\* C8: the pixel pass leaves the buffer's length and every alpha sample as
\* they were, and R, G, B of each pixel are the transform, applied once, of
\* that pixel's own R, G, B before the pass; the extra iteration at index N
\* changes nothing.
C8_PixelPassFrame ==
    pc = "pixels" =>
        /\ Len(data) = Len(orig)
        /\ \A p \in 0..(NumPixels(orig) - 1) :
            /\ Sample(data, p, 4) = Sample(orig, p, 4)
            /\ LET rgb == Shade(effect, LUT, Num(Sample(orig, p, 1)),
                                Num(Sample(orig, p, 2)), Num(Sample(orig, p, 3)))
               IN  \A c \in 1..3 : Sample(data, p, c) = ToUint8Clamp(rgb[c])
        /\ \A p, q \in 0..(NumPixels(orig) - 1) :
            (\A c \in 1..3 : Sample(orig, p, c) = Sample(orig, q, c))
                => \A c \in 1..3 : Sample(data, p, c) = Sample(data, q, c)

\* A pass over a full-size image that changed it, under an effect whose
\* out-of-range iteration computes NaN (sepia of undefined).
C8_Witness ==
    /\ pc = "pixels"
    /\ NumPixels(orig) = MaxPixels
    /\ effect.sepia
    /\ data # orig
    /\ PixelStep(data, NumPixels(data), effect, LUT) = data
    /\ Shade(effect, LUT, undefined, undefined, undefined) = << NaN, NaN, NaN >>

-----------------------------------------------------------------------------
(***************************************************************************)
(* BlendSpec: the viewfinder composite, lines 278-288                      *)
(***************************************************************************)

\* One pixel of ctx.drawImage(img, ...) under globalCompositeOperation =
\* 'multiply': backdrop pixel `bk` and source pixel `sr` (RGBA samples) are
\* blended B(cb, cs) = cb * cs and composited source-over:
\*     ao = as + ab * (1 - as)
\*     co = as * (1 - ab) * cs + as * ab * cb * cs + (1 - as) * ab * cb
\* with co premultiplied; the surface stores co / ao and ao as 8-bit samples.
MultiplyPixel(bk, sr) ==
    LET ab == Rat(bk[4], 255)
        as == Rat(sr[4], 255)
        ao == Add(as, Mul(ab, Sub(Num(1), as)))
        Out(c) ==
            LET cb == Rat(bk[c], 255)
                cs == Rat(sr[c], 255)
                co == Add(Add(Mul(Mul(as, Sub(Num(1), ab)), cs),
                              Mul(Mul(as, ab), Mul(cb, cs))),
                          Mul(Mul(Sub(Num(1), as), ab), cb))
            IN  IF IsZero(ao) THEN 0
                ELSE ToUint8Clamp(Mul(Num(255), Div(co, ao)))
    IN  << Out(1), Out(2), Out(3), ToUint8Clamp(Mul(Num(255), ao)) >>

\* ctx.globalCompositeOperation = 'multiply'; ctx.drawImage(img, 0, 0, w, h)
DrawImageMultiply(surface, vf) ==
    [k \in 1..Len(surface) |->
        LET p == (k - 1) \div 4
        IN  MultiplyPixel(SubSeq(surface, 4 * p + 1, 4 * p + 4),
                          SubSeq(vf, 4 * p + 1, 4 * p + 4))[((k - 1) % 4) + 1]]

\* imageData.data.set(imageData.data.map((v, i) => v * vfData[i] / 255))
ManualMultiply(surface, vfData) ==
    [k \in 1..Len(surface) |->
        ToUint8Clamp(Div(Mul(Num(surface[k]), Num(vfData[k])), Num(255)))]

BlendInit ==
    /\ AsyncInit
    /\ effect = << >>
    /\ LUT = << >>
    /\ orig \in Images
    /\ data = orig
    /\ texture \in {t \in Images : Len(t) = Len(orig)}
    /\ supportsBlendModes \in BOOLEAN
    /\ pc = "loaded"

\* if (supportsBlendModes) { ... drawImage ... }
CompositeBlend ==
    /\ pc = "loaded"
    /\ supportsBlendModes
    /\ data' = DrawImageMultiply(data, texture)
    /\ pc' = "done"
    /\ UNCHANGED << effect, LUT, orig, texture, supportsBlendModes >>
    /\ UNCHANGED asyncVars

\* else { ... manual multiply of every sample ... putImageData }
CompositeManual ==
    /\ pc = "loaded"
    /\ ~supportsBlendModes
    /\ data' = ManualMultiply(data, texture)
    /\ pc' = "done"
    /\ UNCHANGED << effect, LUT, orig, texture, supportsBlendModes >>
    /\ UNCHANGED asyncVars

BlendNext ==
    \/ CompositeBlend
    \/ CompositeManual

BlendSpec == BlendInit /\ [][BlendNext]_vars

\* What the other path would have produced from the same base and texture.
OtherPath ==
    IF supportsBlendModes THEN ManualMultiply(orig, texture)
    ELSE DrawImageMultiply(orig, texture)

Opaque(buf) == \A p \in 0..(NumPixels(buf) - 1) : Sample(buf, p, 4) = 255

\* C7: for every base and texture, alpha below 255 included, the surface the
\* composite produces on one path is within rounding tolerance (one unit per
\* sample) of what the other path produces.
C7_FallbackMatchesBlend ==
    pc = "done" =>
        \A k \in 1..Len(data) :
            /\ data[k] - OtherPath[k] <= 1
            /\ OtherPath[k] - data[k] <= 1

\* The two paths do agree when base and texture are fully opaque.
OpaquePathsAgree ==
    (pc = "done" /\ Opaque(orig) /\ Opaque(texture)) => data = OtherPath

=============================================================================
